---- MODULE Spec2Model ----
(***************************************************************************)
(* Model of the Pomodoro timer of FerramentasPage (src/src/app.jsx).       *)
(*                                                                         *)
(* The component keeps four pieces of React state (timeLeft, phase, cycle, *)
(* running) and one effect that, whenever running, phase or cycle change,  *)
(* clears the interval it installed and, if running, installs a new one    *)
(* whose callback closes over the phase and cycle of that render.          *)
(*                                                                         *)
(* Every handler (a button's onClick, the interval callback) runs to       *)
(* completion, React commits the state updates it queued as one batch, and *)
(* the effect of that commit runs before the next update is processed:     *)
(* an action of the model is the handler, the commit and the effect.       *)
(* State updater functions run once per update.                            *)
(***************************************************************************)
EXTENDS Integers, Sequences, FiniteSets, TLC

\* Bound of the model: the break -> work transition is taken only while
\* cycle < MaxCycle (the code's counter is unbounded).
MaxCycle == 5

\* app.jsx:843-845
workDuration == 25 * 60
shortBreak == 5 * 60
longBreak == 15 * 60

Phases == {"work", "shortBreak", "longBreak"}

VARIABLES
    timeLeft,   \* useState(workDuration)              app.jsx:846
    phase,      \* useState("work")                    app.jsx:847
    cycle,      \* useState(1)                         app.jsx:848
    running,    \* useState(false)                     app.jsx:849
    interval,   \* the interval installed by the effect, with the phase and
                \* cycle its callback closed over; NoInterval when none is live
    lastOp,     \* history: the operation of the last step
    prev,       \* history: timeLeft, phase, cycle, running before the last step
    ticks,      \* history: number of ticks since construction or the last
                \* reset, all taken while running; -1 once one found the timer paused
    visited,    \* history: the <<phase, cycle>> pairs entered since
                \* construction or the last reset, in order
    phaseTicks, \* history: number of ticks since the phase was entered at its
                \* full duration, all taken while running; -1 once one found
                \* the timer paused
    leftAfter   \* history: when the last step was a tick that changed phase,
                \* the number of ticks the phase left had lasted, that tick
                \* included (-1 when not all were taken while running); else 0

timerVars == <<timeLeft, phase, cycle, running, interval, lastOp, prev, ticks,
               visited, phaseTicks, leftAfter>>

\* AuthProvider, the router and RequireAuth
VARIABLES
    session,        \* useState(null) of AuthProvider             app.jsx:44
    clientSession,  \* the session the Supabase client holds, which
                    \* supabase.auth.session() returns
    subscribed,     \* the onAuthStateChange listener is installed
    location,       \* the router's current path
    shown,          \* history: the renders committed by the last step, in
                    \* order: the element of the matched route, with the
                    \* session and the path it was rendered for
    authOp          \* history: the operation of the last step

authVars == <<session, clientSession, subscribed, location, shown, authOp>>

\* KanbanPage
VARIABLES
    tasks,      \* useState([]) of KanbanPage                      app.jsx:231
    rows,       \* the backend's tasks table, by id
    fetched,    \* fetchTasks has resolved
    requests,   \* the update requests sent to the backend, in order
    dragEvent,  \* history: the event of the last handleDragEnd
    kanbanPrev, \* history: tasks and requests before the last step
    kanbanOp    \* history: the operation of the last step

\* KanbanPage, with the fetch and the realtime events in flight (SpecRealtime)
VARIABLES
    dbTable,    \* the backend's tasks table: the status of each id, "absent"
                \* before its row is inserted, "deleted" after it is deleted
    fetch,      \* fetchTasks: "idle", "sent", "answered" (the response is in
                \* flight), "done" (setTasks has run)
    fetchData,  \* the rows of the response in flight
    rtActive,   \* the backend has registered the subscription
    channel,    \* the realtime events in flight, oldest first
    changes,    \* number of changes other clients made to the table
    missed,     \* history: a change was made after the select ran and
                \* before the subscription was registered
    rtOp        \* history: the operation of the last step

realtimeVars == <<dbTable, fetch, fetchData, rtActive, channel, changes, missed, rtOp>>

kanbanVars == <<tasks, rows, fetched, requests, dragEvent, kanbanPrev, kanbanOp,
                realtimeVars>>

\* FerramentasPage, with the effect as a step of its own (SpecEffect)
VARIABLES
    intervals,      \* the closures of the intervals that are live, in the
                    \* order they were installed
    effectHandle,   \* const interval of the effect that ran last: what its
                    \* cleanup clears; NoInterval when it installed none
    pendingEffect,  \* a commit changed the effect's dependencies and the
                    \* cleanup and the effect have not run yet
    fired           \* history: the closure of the interval whose callback
                    \* ran in the last step, NoInterval when none did

effectVars == <<intervals, effectHandle, pendingEffect, fired>>

vars == <<timerVars, effectVars, authVars, kanbanVars>>

NoInterval == [phase |-> "none", cycle |-> 0]

Snapshot == [timeLeft |-> timeLeft, phase |-> phase, cycle |-> cycle, running |-> running]

----------------------------------------------------------------------------
(* The interval callback: setTimeLeft((prev) => ...)   app.jsx:852-865     *)

\* Mutation: the comparison is off by one.
CountsDownFromTwo(p) == p > 1

\* app.jsx:854   if (prev > 0) return prev - 1;
CountsDown(p) == p > 0

\* Mutation: two callbacks decrement in the same second.
DecrementTwice(p) == p - 2

Decrement(p) == p - 1

\* Mutation: the two break kinds are swapped.
PhaseAfterWorkSwapped(c) == IF c % 4 = 0 THEN "shortBreak" ELSE "longBreak"

\* app.jsx:857   setPhase(cycle % 4 === 0 ? "longBreak" : "shortBreak");
PhaseAfterWork(c) == IF c % 4 = 0 THEN "longBreak" ELSE "shortBreak"

\* Mutation: every break gets the long duration.
TimeAfterWorkAlwaysLong(c) == longBreak

\* app.jsx:858   return cycle % 4 === 0 ? longBreak : shortBreak;
TimeAfterWork(c) == IF c % 4 = 0 THEN longBreak ELSE shortBreak

\* Mutation: the updater is applied twice.
CycleAfterBreakTwice(c) == c + 2

\* app.jsx:861   setCycle((c) => c + 1);
CycleAfterBreak(c) == c + 1

\* Mutation: cycle is incremented when work completes as well.
CycleAfterWorkIncrements(c) == c + 1

\* app.jsx:856   the branch on the work phase leaves cycle alone
CycleAfterWork(c) == c

\* Mutation: the phase changes on the tick that brings timeLeft to 0.
IntervalCallbackAtZero(iv, t, p, c) ==
    IF t > 1
      THEN [timeLeft |-> t - 1, phase |-> p, cycle |-> c]
      ELSE IF iv.phase = "work"
             THEN [timeLeft |-> TimeAfterWork(iv.cycle),
                   phase    |-> PhaseAfterWork(iv.cycle),
                   cycle    |-> CycleAfterWork(c)]
             ELSE [timeLeft |-> workDuration,
                   phase    |-> "work",
                   cycle    |-> CycleAfterBreak(c)]

\* The state the callback of interval iv produces from the current
\* timeLeft (the updater's argument), phase and cycle.  phase and cycle in
\* the conditions are the ones iv closed over; setCycle's updater reads the
\* current cycle.
IntervalCallback(iv, t, p, c) ==
    IF CountsDown(t)
      THEN [timeLeft |-> Decrement(t), phase |-> p, cycle |-> c]
      ELSE IF iv.phase = "work"
             THEN [timeLeft |-> TimeAfterWork(iv.cycle),
                   phase    |-> PhaseAfterWork(iv.cycle),
                   cycle    |-> CycleAfterWork(c)]
             ELSE [timeLeft |-> workDuration,
                   phase    |-> "work",
                   cycle    |-> CycleAfterBreak(c)]

----------------------------------------------------------------------------
(* The effect                                          app.jsx:850-867     *)

\* Mutation: phase and cycle are missing from the dependency list.
EffectDepsRunningOnly(r, p, c) == <<r>>

\* app.jsx:867   }, [running, phase, cycle]);
EffectDeps(r, p, c) == <<r, p, c>>

\* Mutation: the early return is taken when running.
InstallIntervalInverted(r, p, c) == IF ~r THEN [phase |-> p, cycle |-> c] ELSE NoInterval

\* Mutation: the early return on !running is missing.
InstallIntervalAlways(r, p, c) == [phase |-> p, cycle |-> c]

\* app.jsx:851-852   if (!running) return; const interval = setInterval(...)
InstallInterval(r, p, c) == IF r THEN [phase |-> p, cycle |-> c] ELSE NoInterval

\* Mutation: the effect returns no cleanup, a paused timer keeps its interval.
RunEffectNoCleanup(iv, r0, p0, c0, r, p, c) ==
    IF EffectDeps(r, p, c) = EffectDeps(r0, p0, c0)
      THEN iv
      ELSE IF r THEN InstallInterval(r, p, c) ELSE iv

\* The interval that is live after the commit of (r, p, c) over a render
\* of (r0, p0, c0) with interval iv: unchanged dependencies leave iv alone,
\* changed ones run the cleanup (clearInterval, app.jsx:866) and the effect.
RunEffect(iv, r0, p0, c0, r, p, c) ==
    IF EffectDeps(r, p, c) = EffectDeps(r0, p0, c0)
      THEN iv
      ELSE InstallInterval(r, p, c)

----------------------------------------------------------------------------
\* FerramentasPage as mounted
TimerInit ==
    /\ timeLeft = workDuration
    /\ phase = "work"
    /\ cycle = 1
    /\ running = FALSE
    /\ interval = InstallInterval(FALSE, "work", 1)
    /\ lastOp = "init"
    /\ prev = [timeLeft |-> workDuration, phase |-> "work", cycle |-> 1, running |-> FALSE]
    /\ ticks = 0
    /\ visited = << <<"work", 1>> >>
    /\ phaseTicks = 0
    /\ leftAfter = 0

\* Mutation: start also restarts the countdown of the phase.
StartRestartsCountdown ==
    /\ running' = TRUE
    /\ timeLeft' = workDuration
    /\ UNCHANGED <<phase, cycle>>
    /\ interval' = RunEffect(interval, running, phase, cycle, running', phase', cycle')
    /\ lastOp' = "start"
    /\ prev' = Snapshot
    /\ leftAfter' = 0
    /\ UNCHANGED <<ticks, visited, phaseTicks>>
    /\ UNCHANGED <<effectVars, authVars, kanbanVars>>

\* app.jsx:868   const start = () => setRunning(true);
Start ==
    /\ running' = TRUE
    /\ UNCHANGED <<timeLeft, phase, cycle>>
    /\ interval' = RunEffect(interval, running, phase, cycle, running', phase', cycle')
    /\ lastOp' = "start"
    /\ prev' = Snapshot
    /\ leftAfter' = 0
    /\ UNCHANGED <<ticks, visited, phaseTicks>>
    /\ UNCHANGED <<effectVars, authVars, kanbanVars>>

\* Mutation: pause also restarts the countdown of the phase.
PauseRestartsCountdown ==
    /\ running' = FALSE
    /\ timeLeft' = workDuration
    /\ UNCHANGED <<phase, cycle>>
    /\ interval' = RunEffect(interval, running, phase, cycle, running', phase', cycle')
    /\ lastOp' = "pause"
    /\ prev' = Snapshot
    /\ leftAfter' = 0
    /\ UNCHANGED <<ticks, visited, phaseTicks>>
    /\ UNCHANGED <<effectVars, authVars, kanbanVars>>

\* app.jsx:887   onClick={() => setRunning(false)}
Pause ==
    /\ running' = FALSE
    /\ UNCHANGED <<timeLeft, phase, cycle>>
    /\ interval' = RunEffect(interval, running, phase, cycle, running', phase', cycle')
    /\ lastOp' = "pause"
    /\ prev' = Snapshot
    /\ leftAfter' = 0
    /\ UNCHANGED <<ticks, visited, phaseTicks>>
    /\ UNCHANGED <<effectVars, authVars, kanbanVars>>

\* Mutation: setRunning(false) is missing.
ResetStateKeepsRunning == [timeLeft |-> workDuration, phase |-> "work", cycle |-> 1, running |-> running]

\* Mutation: the cycle counter restarts at 0.
ResetStateCycleZero == [timeLeft |-> workDuration, phase |-> "work", cycle |-> 0, running |-> FALSE]

\* Mutation: setPhase("work") is missing.
ResetStateKeepsPhase == [timeLeft |-> workDuration, phase |-> phase, cycle |-> 1, running |-> FALSE]

\* Mutation: setCycle(1) is missing.
ResetStateKeepsCycle == [timeLeft |-> workDuration, phase |-> "work", cycle |-> cycle, running |-> FALSE]

\* app.jsx:869-874
ResetState == [timeLeft |-> workDuration, phase |-> "work", cycle |-> 1, running |-> FALSE]

Reset ==
    /\ running' = ResetState.running
    /\ phase' = ResetState.phase
    /\ cycle' = ResetState.cycle
    /\ timeLeft' = ResetState.timeLeft
    /\ interval' = RunEffect(interval, running, phase, cycle, running', phase', cycle')
    /\ lastOp' = "reset"
    /\ prev' = Snapshot
    /\ ticks' = 0
    /\ visited' = << <<"work", 1>> >>
    /\ phaseTicks' = 0
    /\ leftAfter' = 0
    /\ UNCHANGED <<effectVars, authVars, kanbanVars>>

----------------------------------------------------------------------------
(* The displayed time                                  app.jsx:875-876     *)
(* Strings are sequences of one-character strings.                         *)

DigitChars == <<"0", "1", "2", "3", "4", "5", "6", "7", "8", "9">>

\* String(n) of a non-negative integer: its decimal digits, no leading zero
RECURSIVE StringOf(_)
StringOf(n) ==
    IF n < 10
      THEN <<DigitChars[n + 1]>>
      ELSE Append(StringOf(n \div 10), DigitChars[(n % 10) + 1])

\* Mutation: the padding is missing.
padStartMissing(str, targetLength, padString) == str

\* str.padStart(targetLength, padString) with a one-character padString
RECURSIVE padStart(_, _, _)
padStart(str, targetLength, padString) ==
    IF Len(str) >= targetLength
      THEN str
      ELSE padStart(<<padString>> \o str, targetLength, padString)

\* app.jsx:875   String(Math.floor(timeLeft / 60)).padStart(2, "0")
minutes == padStart(StringOf(timeLeft \div 60), 2, "0")

\* app.jsx:876   String(timeLeft % 60).padStart(2, "0")
seconds == padStart(StringOf(timeLeft % 60), 2, "0")

----------------------------------------------------------------------------
\* One second elapses: the live interval, if any, fires its callback.
Tick ==
    /\ \/ interval = NoInterval
       \/ CountsDown(timeLeft)
       \/ interval.phase = "work"
       \/ cycle < MaxCycle
    /\ LET s == IF interval = NoInterval
                  THEN [timeLeft |-> timeLeft, phase |-> phase, cycle |-> cycle]
                  ELSE IntervalCallback(interval, timeLeft, phase, cycle)
       IN /\ timeLeft' = s.timeLeft
          /\ phase' = s.phase
          /\ cycle' = s.cycle
    /\ UNCHANGED running
    /\ interval' = RunEffect(interval, running, phase, cycle, running', phase', cycle')
    /\ lastOp' = "tick"
    /\ prev' = Snapshot
    /\ ticks' = IF ticks = -1 \/ ~running THEN -1 ELSE ticks + 1
    /\ visited' = IF phase' /= phase \/ cycle' /= cycle
                    THEN Append(visited, <<phase', cycle'>>)
                    ELSE visited
    /\ LET n == IF phaseTicks = -1 \/ ~running THEN -1 ELSE phaseTicks + 1
       IN IF phase' /= phase
            THEN phaseTicks' = 0 /\ leftAfter' = n
            ELSE phaseTicks' = n /\ leftAfter' = 0
    /\ UNCHANGED <<effectVars, authVars, kanbanVars>>

----------------------------------------------------------------------------
(* The timer with the effect as a step of its own      app.jsx:850-874     *)
(*                                                                         *)
(* A commit that changes running, phase or cycle leaves the cleanup and    *)
(* the effect to run.  After a click React runs them with the commit; after*)
(* a commit made by the interval callback they run later, and at the       *)
(* latest when the next update is processed.  Until then the interval of   *)
(* the previous render is live and may fire.                               *)

\* Bound of the model: the intervals live at once.
MaxIntervals == 3

EffectInit ==
    /\ intervals = << >>
    /\ effectHandle = NoInterval
    /\ pendingEffect = FALSE
    /\ fired = NoInterval

RemoveAt(seq, i) == SubSeq(seq, 1, i - 1) \o SubSeq(seq, i + 1, Len(seq))

\* Mutation: the effect returns no cleanup.
ClearIntervalMissing(ivs, handle) == ivs

\* app.jsx:866   return () => clearInterval(interval);
ClearInterval(ivs, handle) ==
    IF \E i \in 1..Len(ivs) : ivs[i] = handle
      THEN RemoveAt(ivs, CHOOSE i \in 1..Len(ivs) : ivs[i] = handle)
      ELSE ivs

\* app.jsx:852   const interval = setInterval(...)
SetInterval(ivs, iv) == IF iv = NoInterval THEN ivs ELSE Append(ivs, iv)

\* The cleanup of the previous effect, then the effect of the render of
\* (r, p, c)
EffectRun(ivs, handle, r, p, c) ==
    SetInterval(ClearInterval(ivs, handle), InstallInterval(r, p, c))

\* The live intervals and the handle once the pending effect, if any, ran
FlushedIntervals ==
    IF pendingEffect
      THEN EffectRun(intervals, effectHandle, running, phase, cycle)
      ELSE intervals

FlushedHandle ==
    IF pendingEffect THEN InstallInterval(running, phase, cycle) ELSE effectHandle

\* A click handler set the state to s: when nothing changed there is no
\* render; otherwise the pending effect runs first and, if the dependencies
\* changed, the cleanup and the effect of the new commit run with it.
Click(op, s) ==
    /\ timeLeft' = s.timeLeft
    /\ phase' = s.phase
    /\ cycle' = s.cycle
    /\ running' = s.running
    /\ IF s = Snapshot
         THEN UNCHANGED <<intervals, effectHandle, pendingEffect>>
         ELSE /\ pendingEffect' = FALSE
              /\ IF EffectDeps(s.running, s.phase, s.cycle) = EffectDeps(running, phase, cycle)
                   THEN /\ intervals' = FlushedIntervals
                        /\ effectHandle' = FlushedHandle
                   ELSE /\ intervals' = EffectRun(FlushedIntervals, FlushedHandle,
                                                  s.running, s.phase, s.cycle)
                        /\ effectHandle' = InstallInterval(s.running, s.phase, s.cycle)
    /\ Len(intervals') <= MaxIntervals
    /\ fired' = NoInterval
    /\ lastOp' = op
    /\ prev' = Snapshot
    /\ UNCHANGED <<interval, ticks, visited, phaseTicks, leftAfter>>
    /\ UNCHANGED <<authVars, kanbanVars>>

\* app.jsx:868
ClickStart == Click("start", [Snapshot EXCEPT !.running = TRUE])

\* app.jsx:887
ClickPause == Click("pause", [Snapshot EXCEPT !.running = FALSE])

\* app.jsx:869-874
ClickReset == Click("reset", ResetState)

\* The i-th live interval fires.  Its callback queues the update; React
\* runs the pending effect, if any, before it processes the update, and
\* leaves the effect of the new commit pending.
IntervalFires(i) ==
    /\ i \in 1..Len(intervals)
    /\ \/ CountsDown(timeLeft)
       \/ intervals[i].phase = "work"
       \/ cycle < MaxCycle
    /\ LET s == IntervalCallback(intervals[i], timeLeft, phase, cycle)
       IN /\ timeLeft' = s.timeLeft
          /\ phase' = s.phase
          /\ cycle' = s.cycle
    /\ UNCHANGED running
    /\ intervals' = FlushedIntervals
    /\ effectHandle' = FlushedHandle
    /\ pendingEffect' = (EffectDeps(running', phase', cycle') /= EffectDeps(running, phase, cycle))
    /\ Len(intervals') <= MaxIntervals
    /\ fired' = intervals[i]
    /\ lastOp' = "fire"
    /\ prev' = Snapshot
    /\ UNCHANGED <<interval, ticks, visited, phaseTicks, leftAfter>>
    /\ UNCHANGED <<authVars, kanbanVars>>

\* The pending cleanup and effect run.
FlushEffect ==
    /\ pendingEffect
    /\ intervals' = FlushedIntervals
    /\ effectHandle' = FlushedHandle
    /\ pendingEffect' = FALSE
    /\ Len(intervals') <= MaxIntervals
    /\ fired' = NoInterval
    /\ lastOp' = "flush"
    /\ prev' = Snapshot
    /\ UNCHANGED <<timeLeft, phase, cycle, running>>
    /\ UNCHANGED <<interval, ticks, visited, phaseTicks, leftAfter>>
    /\ UNCHANGED <<authVars, kanbanVars>>

----------------------------------------------------------------------------
(* Authentication and routing              app.jsx:43-55, 917-953          *)

NoSession == "null"

\* the session objects the backend may hand out
Sessions == {"s1", "s2", "s3"}

LoginPath == "/login"

\* app.jsx:928-936
ProtectedPaths == {"/", "/kanban", "/agenda", "/clientes", "/equipe", "/servicos",
                   "/relatorios", "/funil", "/ferramentas"}

\* "/outra" stands for the paths no route of the nested <Routes> matches
Paths == {LoginPath} \cup ProtectedPaths \cup {"/outra"}

\* app.jsx:927-937   the nested <Routes>; no match renders nothing
PageAt(path) ==
    CASE path = "/" -> "DashboardPage"
      [] path = "/kanban" -> "KanbanPage"
      [] path = "/agenda" -> "AgendaPage"
      [] path = "/clientes" -> "ClientesPage"
      [] path = "/equipe" -> "EquipePage"
      [] path = "/servicos" -> "ServicosPage"
      [] path = "/relatorios" -> "RelatoriosPage"
      [] path = "/funil" -> "FunilPage"
      [] path = "/ferramentas" -> "FerramentasPage"
      [] OTHER -> "none"

\* Mutation: the session is not tested.
RequireAuthOpen(sess, children) == children

\* app.jsx:947-953
RequireAuth(sess, children) ==
    IF sess = NoSession THEN "Navigate" ELSE children

\* app.jsx:920-939   <Routes>: /login, and /* wrapped in RequireAuth
AppElement(sess, path) ==
    IF path = LoginPath THEN "LoginPage" ELSE RequireAuth(sess, PageAt(path))

Render(sess, path) == [page |-> AppElement(sess, path), session |-> sess, path |-> path]

\* app.jsx:950   <Navigate to="/login" replace />: once rendered, its effect
\* replaces the location and the app renders again.
PathAfter(sess, path) ==
    IF AppElement(sess, path) = "Navigate" THEN LoginPath ELSE path

Commits(sess, path) ==
    IF AppElement(sess, path) = "Navigate"
      THEN <<Render(sess, path), Render(sess, LoginPath)>>
      ELSE <<Render(sess, path)>>

\* The first render: session is null, whatever the client holds; the page
\* was opened at any path.
AuthConstructed ==
    /\ session = NoSession
    /\ clientSession \in {NoSession} \cup Sessions
    /\ subscribed = FALSE
    /\ location \in Paths
    /\ shown = <<Render(NoSession, location)>>
    /\ authOp = "init"

\* A signed-in user on the given page.
AuthSignedInAt(path) ==
    /\ session = "s1"
    /\ clientSession = "s1"
    /\ subscribed = TRUE
    /\ location = path
    /\ shown = <<Render("s1", path)>>
    /\ authOp = "goto"

\* The effects of the first commit: Navigate's redirect (a child's effect
\* runs first), then AuthProvider's effect (app.jsx:45-53) reads the
\* client's session into the state and installs the listener.
AuthMount ==
    /\ ~subscribed
    /\ session' = clientSession
    /\ subscribed' = TRUE
    /\ location' = PathAfter(session, location)
    /\ shown' = Commits(session', location')
    /\ authOp' = "mount"
    /\ UNCHANGED clientSession
    /\ UNCHANGED <<timerVars, effectVars, kanbanVars>>

\* app.jsx:48-50   the listener: a sign-in (s a session, from signIn,
\* app.jsx:68) or a sign-out (s null, from signOut, app.jsx:106)
AuthStateChange(s) ==
    /\ subscribed
    /\ clientSession' = s
    /\ session' = s
    /\ location' = PathAfter(s, location)
    /\ shown' = Commits(s, location)
    /\ authOp' = "authChange"
    /\ UNCHANGED subscribed
    /\ UNCHANGED <<timerVars, effectVars, kanbanVars>>

\* The user follows a link or opens a path.
GoTo(path) ==
    /\ subscribed
    /\ location' = PathAfter(session, path)
    /\ shown' = Commits(session, path)
    /\ authOp' = "goto"
    /\ UNCHANGED <<session, clientSession, subscribed>>
    /\ UNCHANGED <<timerVars, effectVars, kanbanVars>>

----------------------------------------------------------------------------
(* The Kanban board                        app.jsx:230-288                 *)

\* Bounds of the model: the tasks of the backend table, and the update
\* requests a run sends.
MaxTasks == 2
MaxRequests == 2

TaskIds == 1..MaxTasks

\* app.jsx:269
Statuses == {"pendente", "em_andamento", "concluido"}

\* A row of the tasks table; title stands for the fields other than status.
Task(id, st) == [id |-> id, status |-> st, title |-> id]

NoDrag == [active |-> 0, status |-> "undefined", over |-> "null"]

\* app.jsx:236   select("*"): the rows of the table
SelectAll(table) == [i \in 1..MaxTasks |-> table[i]]

\* app.jsx:281   if (!over || active.data.current?.status === over.id) return;
DragIgnored(dataStatus, over) == over = "null" \/ dataStatus = over

\* Mutation: the id is not compared, every task moves.
MoveEveryTask(ts, taskId, newStatus) ==
    [i \in 1..Len(ts) |-> [ts[i] EXCEPT !.status = newStatus]]

\* app.jsx:285   tasks.map((t) => (t.id === taskId ? { ...t, status: newStatus } : t))
MoveTask(ts, taskId, newStatus) ==
    [i \in 1..Len(ts) |->
        IF ts[i].id = taskId THEN [ts[i] EXCEPT !.status = newStatus] ELSE ts[i]]

\* app.jsx:287   update({ status: newStatus }).eq("id", taskId)
UpdateRow(table, taskId, newStatus) ==
    [i \in DOMAIN table |->
        IF table[i].id = taskId THEN [table[i] EXCEPT !.status = newStatus] ELSE table[i]]

LocalStatus(ts, taskId) ==
    LET i == CHOOSE j \in 1..Len(ts) : ts[j].id = taskId IN ts[i].status

\* The fetch and the realtime events before the page is mounted
NotRows == {"absent", "deleted"}

RealtimeIdle ==
    /\ dbTable = [i \in TaskIds |-> "absent"]
    /\ fetch = "idle"
    /\ fetchData = << >>
    /\ rtActive = FALSE
    /\ channel = << >>
    /\ changes = 0
    /\ missed = FALSE
    /\ rtOp = "init"

\* KanbanPage after its first render, over any contents of the table.
KanbanConstructed ==
    /\ RealtimeIdle
    /\ tasks = << >>
    /\ rows \in {[i \in TaskIds |-> Task(i, st[i])] : st \in [TaskIds -> Statuses]}
    /\ fetched = FALSE
    /\ requests = << >>
    /\ dragEvent = NoDrag
    /\ kanbanPrev = [tasks |-> << >>, requests |-> << >>]
    /\ kanbanOp = "init"

KanbanNotMounted ==
    /\ RealtimeIdle
    /\ tasks = << >>
    /\ rows = [i \in TaskIds |-> Task(i, "pendente")]
    /\ fetched = FALSE
    /\ requests = << >>
    /\ dragEvent = NoDrag
    /\ kanbanPrev = [tasks |-> << >>, requests |-> << >>]
    /\ kanbanOp = "init"

\* app.jsx:235-239   fetchTasks resolves: setTasks(data || [])
FetchTasks ==
    /\ ~fetched
    /\ tasks' = SelectAll(rows)
    /\ fetched' = TRUE
    /\ kanbanPrev' = [tasks |-> tasks, requests |-> requests]
    /\ kanbanOp' = "fetch"
    /\ UNCHANGED <<rows, requests, dragEvent, realtimeVars>>
    /\ UNCHANGED <<timerVars, effectVars, authVars>>

\* app.jsx:279-288   a drag of the card of task activeId ends; dataStatus
\* is active.data.current?.status: undefined, as no data is registered for
\* the cards, or the status of the card's column; over is the id of the
\* column under the card, "null" when there is no drop target.
HandleDragEnd(activeId, dataStatus, over) ==
    /\ \E i \in 1..Len(tasks) : tasks[i].id = activeId
    /\ dataStatus \in {"undefined", LocalStatus(tasks, activeId)}
    /\ over \in {"null"} \cup Statuses
    /\ Len(requests) < MaxRequests
    /\ IF DragIgnored(dataStatus, over)
         THEN UNCHANGED <<tasks, requests, rows>>
         ELSE /\ tasks' = MoveTask(tasks, activeId, over)
              /\ requests' = Append(requests, [id |-> activeId, status |-> over])
              /\ rows' = UpdateRow(rows, activeId, over)
    /\ dragEvent' = [active |-> activeId, status |-> dataStatus, over |-> over]
    /\ kanbanPrev' = [tasks |-> tasks, requests |-> requests]
    /\ kanbanOp' = "dragEnd"
    /\ UNCHANGED <<fetched, realtimeVars>>
    /\ UNCHANGED <<timerVars, effectVars, authVars>>

----------------------------------------------------------------------------
(* The Kanban board's fetch and realtime events        app.jsx:234-250     *)
(*                                                                         *)
(* The effect sends the select and the subscription.  The backend runs the *)
(* select and registers the subscription in either order; from then on it  *)
(* sends one event per change of the table.  The response and the events   *)
(* reach the page in any order, the events among themselves in the order   *)
(* they were sent.                                                         *)

\* Bound of the model: the changes other clients make to the table.
MaxChanges == 2

\* KanbanPage after its first render, over any contents of the table
RealtimeConstructed ==
    /\ dbTable \in [TaskIds -> Statuses \cup {"absent"}]
    /\ fetch = "idle"
    /\ fetchData = << >>
    /\ rtActive = FALSE
    /\ channel = << >>
    /\ changes = 0
    /\ missed = FALSE
    /\ rtOp = "init"

\* app.jsx:236   select("*") over the table t
SelectRows(t) ==
    LET ids == SelectSeq([i \in 1..MaxTasks |-> i], LAMBDA i : t[i] \notin NotRows)
    IN [k \in 1..Len(ids) |-> Task(ids[k], t[ids[k]])]

\* app.jsx:243   setTasks((prev) => [...prev, payload.new])
OnInsert(ts, new) == Append(ts, new)

\* app.jsx:244   prev.map((t) => (t.id === payload.new.id ? payload.new : t))
OnUpdate(ts, new) == [k \in 1..Len(ts) |-> IF ts[k].id = new.id THEN new ELSE ts[k]]

\* app.jsx:245   prev.filter((t) => t.id !== payload.old.id)
OnDelete(ts, old) == SelectSeq(ts, LAMBDA t : t.id /= old.id)

RealtimeFrame ==
    /\ UNCHANGED <<rows, fetched, requests, dragEvent, kanbanPrev, kanbanOp>>
    /\ UNCHANGED <<timerVars, effectVars, authVars>>

\* app.jsx:234-246   the effect: fetchTasks() sends the select, then the
\* subscription is sent
KanbanMount ==
    /\ fetch = "idle"
    /\ fetch' = "sent"
    /\ rtOp' = "mount"
    /\ UNCHANGED <<tasks, dbTable, fetchData, rtActive, channel, changes, missed>>
    /\ RealtimeFrame

\* the backend runs the select
BackendSelect ==
    /\ fetch = "sent"
    /\ fetch' = "answered"
    /\ fetchData' = SelectRows(dbTable)
    /\ rtOp' = "select"
    /\ UNCHANGED <<tasks, dbTable, rtActive, channel, changes, missed>>
    /\ RealtimeFrame

\* the backend registers the subscription
BackendSubscribe ==
    /\ fetch /= "idle"
    /\ ~rtActive
    /\ rtActive' = TRUE
    /\ rtOp' = "subscribe"
    /\ UNCHANGED <<tasks, dbTable, fetch, fetchData, channel, changes, missed>>
    /\ RealtimeFrame

\* another client changes the table; subscribers are sent the event
BackendChange(type, id, st) ==
    /\ fetch /= "idle"
    /\ changes < MaxChanges
    /\ changes' = changes + 1
    /\ CASE type = "INSERT" -> dbTable[id] = "absent" /\ st \in Statuses
         [] type = "UPDATE" -> dbTable[id] \notin NotRows /\ st \in Statuses /\ st /= dbTable[id]
         [] type = "DELETE" -> dbTable[id] \notin NotRows /\ st = "deleted"
    /\ dbTable' = [dbTable EXCEPT ![id] = st]
    /\ channel' = IF rtActive
                    THEN Append(channel, [type |-> type,
                                          row |-> Task(id, IF type = "DELETE" THEN dbTable[id] ELSE st)])
                    ELSE channel
    /\ missed' = (missed \/ (~rtActive /\ fetch \in {"answered", "done"}))
    /\ rtOp' = "change"
    /\ UNCHANGED <<tasks, fetch, fetchData, rtActive>>
    /\ RealtimeFrame

\* app.jsx:236-237   the response arrives: setTasks(data || [])
FetchResolves ==
    /\ fetch = "answered"
    /\ fetch' = "done"
    /\ tasks' = fetchData
    /\ fetchData' = << >>
    /\ rtOp' = "fetched"
    /\ UNCHANGED <<dbTable, rtActive, channel, changes, missed>>
    /\ RealtimeFrame

\* app.jsx:243-245   the oldest event in flight arrives and its callback runs
DeliverEvent ==
    /\ channel /= << >>
    /\ LET ev == Head(channel)
       IN tasks' = CASE ev.type = "INSERT" -> OnInsert(tasks, ev.row)
                     [] ev.type = "UPDATE" -> OnUpdate(tasks, ev.row)
                     [] ev.type = "DELETE" -> OnDelete(tasks, ev.row)
    /\ channel' = Tail(channel)
    /\ rtOp' = "event"
    /\ UNCHANGED <<dbTable, fetch, fetchData, rtActive, changes, missed>>
    /\ RealtimeFrame

----------------------------------------------------------------------------
(* Specifications                                                          *)

\* The timer, on the page of a signed-in user
Init == TimerInit /\ EffectInit /\ AuthSignedInAt("/ferramentas") /\ KanbanNotMounted

Next == Start \/ Pause \/ Reset \/ Tick

Spec == Init /\ [][Next]_vars

\* The timer left running: after start only the interval acts.  setInterval
\* keeps firing the callback of a live interval, once per second.
NextRun == Start \/ Tick

SpecRun == Init /\ [][NextRun]_vars /\ WF_vars(Tick)

\* The timer under every interleaving of clicks, interval firings and the
\* deferred effect
NextEffect ==
    \/ ClickStart
    \/ ClickPause
    \/ ClickReset
    \/ \E i \in 1..MaxIntervals : IntervalFires(i)
    \/ FlushEffect

SpecEffect == Init /\ [][NextEffect]_vars

\* The application from its first render on: sessions and navigation
InitAuth == AuthConstructed /\ TimerInit /\ EffectInit /\ KanbanNotMounted

NextAuth ==
    \/ AuthMount
    \/ \E s \in {NoSession} \cup Sessions : AuthStateChange(s)
    \/ \E path \in Paths : GoTo(path)

SpecAuth == InitAuth /\ [][NextAuth]_vars

\* The Kanban board of a signed-in user
InitKanban == KanbanConstructed /\ TimerInit /\ EffectInit /\ AuthSignedInAt("/kanban")

NextKanban ==
    \/ FetchTasks
    \/ \E activeId \in TaskIds, dataStatus \in {"undefined"} \cup Statuses,
          over \in {"null"} \cup Statuses :
            HandleDragEnd(activeId, dataStatus, over)

SpecKanban == InitKanban /\ [][NextKanban]_vars

\* The Kanban board from its first render on: the fetch, the subscription
\* and the changes other clients make
InitRealtime ==
    /\ RealtimeConstructed
    /\ tasks = << >>
    /\ rows = [i \in TaskIds |-> Task(i, "pendente")]
    /\ fetched = FALSE
    /\ requests = << >>
    /\ dragEvent = NoDrag
    /\ kanbanPrev = [tasks |-> << >>, requests |-> << >>]
    /\ kanbanOp = "init"
    /\ TimerInit /\ EffectInit /\ AuthSignedInAt("/kanban")

NextRealtime ==
    \/ KanbanMount
    \/ BackendSelect
    \/ BackendSubscribe
    \/ \E type \in {"INSERT", "UPDATE", "DELETE"}, id \in TaskIds,
          st \in Statuses \cup {"deleted"} : BackendChange(type, id, st)
    \/ FetchResolves
    \/ DeliverEvent

SpecRealtime == InitRealtime /\ [][NextRealtime]_vars

----------------------------------------------------------------------------
(* Properties                                                              *)

phaseDuration(p) ==
    CASE p = "work" -> workDuration
      [] p = "shortBreak" -> shortBreak
      [] p = "longBreak" -> longBreak

Breaks == {"shortBreak", "longBreak"}

\* C1: in every reachable state 0 <= timeLeft <= phaseDuration(phase), the
\* durations being 1500 (work), 300 (shortBreak) and 900 (longBreak).
C1_TimeLeftInRange ==
    /\ phase \in Phases
    /\ workDuration = 1500 /\ shortBreak = 300 /\ longBreak = 900
    /\ 0 <= timeLeft
    /\ timeLeft <= phaseDuration(phase)

C1_Witness ==
    /\ lastOp = "tick"
    /\ prev.phase = "work" /\ prev.cycle = 4
    /\ phase = "longBreak" /\ timeLeft = phaseDuration("longBreak")

\* C2: a tick taken while running with phase = work and timeLeft = 0 moves
\* to longBreak with timeLeft = 900 when cycle % 4 = 0 and otherwise to
\* shortBreak with timeLeft = 300; cycle is unchanged by that tick.
C2_WorkEnds ==
    (lastOp = "tick" /\ prev.running /\ prev.phase = "work" /\ prev.timeLeft = 0)
      => /\ cycle = prev.cycle
         /\ IF prev.cycle % 4 = 0
              THEN phase = "longBreak" /\ timeLeft = 900
              ELSE phase = "shortBreak" /\ timeLeft = 300

C2_Witness ==
    /\ lastOp = "tick" /\ prev.running /\ prev.phase = "work" /\ prev.timeLeft = 0
    /\ prev.cycle % 4 = 0

\* C3: a tick taken while running with phase = shortBreak or longBreak and
\* timeLeft = 0 moves to work with timeLeft = 1500 and increases cycle by
\* exactly 1.
C3_BreakEnds ==
    (lastOp = "tick" /\ prev.running /\ prev.phase \in Breaks /\ prev.timeLeft = 0)
      => /\ phase = "work"
         /\ timeLeft = 1500
         /\ cycle = prev.cycle + 1

C3_Witness ==
    /\ lastOp = "tick" /\ prev.running /\ prev.phase = "shortBreak" /\ prev.timeLeft = 0
    /\ phase = "work" /\ cycle = 3

\* C4: reset in any reachable state yields exactly phase = work,
\* timeLeft = 1500, cycle = 1, running = false.
C4_ResetResult ==
    lastOp = "reset"
      => /\ phase = "work"
         /\ timeLeft = 1500
         /\ cycle = 1
         /\ running = FALSE
         /\ interval = NoInterval

C4_Witness ==
    /\ lastOp = "reset"
    /\ prev.running /\ prev.phase = "longBreak" /\ prev.cycle = 4
    /\ prev.timeLeft = 17

\* C5: while running = false a tick changes none of phase, timeLeft, cycle
\* and running, in every reachable paused state, timeLeft = 0 included.
C5_PausedTickIsNoOp ==
    (lastOp = "tick" /\ ~prev.running) => Snapshot = prev

C5_Witness ==
    /\ lastOp = "tick" /\ ~prev.running
    /\ prev.timeLeft = 0 /\ prev.phase = "shortBreak"

\* C6 as stated: from the initial state with running = true throughout, the
\* state right after the 1500th tick is (shortBreak, 300, cycle 1).
C6_Original ==
    ticks = 1500 => (phase = "shortBreak" /\ timeLeft = 300 /\ cycle = 1)

\* C6 as amended: from the initial state with running = true throughout, the
\* state right after the 1500th tick is (work, 0, cycle 1), and the state
\* right after the 1501st tick is (shortBreak, 300, cycle 1).
C6_Amended ==
    /\ ticks = 1500 => (phase = "work" /\ timeLeft = 0 /\ cycle = 1)
    /\ ticks = 1501 => (phase = "shortBreak" /\ timeLeft = 300 /\ cycle = 1)

C6_Witness ==
    /\ ticks = 1501 /\ lastOp = "tick"
    /\ prev.phase = "work" /\ prev.timeLeft = 0

\* C7: across ticks cycle never decreases; it increases by exactly 1 on each
\* tick that moves phase from shortBreak or longBreak to work, and on no
\* other tick.
C7_CycleMonotone ==
    lastOp = "tick"
      => /\ cycle >= prev.cycle
         /\ IF prev.phase \in Breaks /\ phase = "work"
              THEN cycle = prev.cycle + 1
              ELSE cycle = prev.cycle

C7_Witness ==
    /\ lastOp = "tick" /\ prev.phase = "longBreak" /\ phase = "work"
    /\ cycle = prev.cycle + 1

\* C8: from the initial state, under ticks taken while running, the phases
\* entered are work, shortBreak, work, shortBreak, work, shortBreak, work,
\* longBreak, work, with cycle 1,1,2,2,3,3,4 over the first seven; the
\* fourth work -> break transition is the first to longBreak, and cycle
\* first equals 5 on the tick that leaves longBreak for work.
FullCycle ==
    << <<"work", 1>>, <<"shortBreak", 1>>, <<"work", 2>>, <<"shortBreak", 2>>,
       <<"work", 3>>, <<"shortBreak", 3>>, <<"work", 4>>, <<"longBreak", 4>>,
       <<"work", 5>> >>

C8_FullCycle ==
    ticks /= -1
      => /\ \A i \in 1..Len(visited) : i <= Len(FullCycle) => visited[i] = FullCycle[i]
         /\ visited[Len(visited)] = <<phase, cycle>>
         /\ cycle >= 5 => Len(visited) >= Len(FullCycle)

C8_Witness ==
    /\ ticks /= -1 /\ lastOp = "tick"
    /\ Len(visited) = Len(FullCycle)
    /\ prev.phase = "longBreak" /\ phase = "work" /\ cycle = 5

\* C9 as stated: over any sequence of start, pause, reset and tick, every
\* step in which phase changes is taken from a state with timeLeft = 0 and
\* running = true.
C9_Original ==
    phase /= prev.phase => (prev.timeLeft = 0 /\ prev.running)

\* C9 as amended: every step other than reset in which phase changes is a
\* tick taken from a state with timeLeft = 0 and running = true; reset moves
\* phase to work from any state.
C9_Amended ==
    /\ (lastOp /= "reset" /\ phase /= prev.phase)
          => (lastOp = "tick" /\ prev.timeLeft = 0 /\ prev.running)
    /\ lastOp = "reset" => phase = "work"

C9_Witness ==
    /\ lastOp = "tick" /\ phase /= prev.phase
    /\ prev.timeLeft = 0 /\ prev.running /\ prev.phase = "work" /\ prev.cycle = 2

\* C10: a tick taken while running with timeLeft > 0 decreases timeLeft by
\* exactly 1 and leaves phase, cycle and running unchanged.
C10_CountDown ==
    (lastOp = "tick" /\ prev.running /\ prev.timeLeft > 0)
      => /\ timeLeft = prev.timeLeft - 1
         /\ phase = prev.phase
         /\ cycle = prev.cycle
         /\ running = prev.running

C10_Witness ==
    /\ lastOp = "tick" /\ prev.running
    /\ prev.timeLeft = 1 /\ timeLeft = 0 /\ phase = "longBreak"

\* C11: start in any reachable state sets running = true and leaves phase,
\* timeLeft and cycle unchanged; start when already running leaves the
\* whole state unchanged.
C11_StartFrame ==
    lastOp = "start"
      => /\ running = TRUE
         /\ phase = prev.phase
         /\ timeLeft = prev.timeLeft
         /\ cycle = prev.cycle
         /\ interval = [phase |-> phase, cycle |-> cycle]
         /\ prev.running => Snapshot = prev

C11_Witness ==
    /\ lastOp = "start" /\ ~prev.running /\ running
    /\ phase = "shortBreak" /\ timeLeft = 42 /\ cycle = 2

\* C12: pause in any reachable state sets running = false and leaves phase,
\* timeLeft and cycle unchanged, so that a start that follows resumes from
\* them; pause when already paused leaves the whole state unchanged.
C12_PauseFrame ==
    lastOp = "pause"
      => /\ running = FALSE
         /\ phase = prev.phase
         /\ timeLeft = prev.timeLeft
         /\ cycle = prev.cycle
         /\ interval = NoInterval
         /\ ~prev.running => Snapshot = prev

C12_Witness ==
    /\ lastOp = "pause" /\ prev.running /\ ~running
    /\ phase = "longBreak" /\ timeLeft = 42 /\ cycle = 4

\* C13: running is false in the initial state and right after every reset;
\* a step turns running from false to true only if it is start, and from
\* true to false only if it is pause or reset; no tick changes running.
C13_RunningChanges ==
    /\ lastOp \in {"init", "reset"} => ~running
    /\ (running /\ ~prev.running) => lastOp = "start"
    /\ (~running /\ prev.running) => lastOp \in {"pause", "reset"}
    /\ lastOp = "tick" => running = prev.running

C13_Witness ==
    /\ lastOp = "reset" /\ prev.running /\ ~running
    /\ prev.phase = "shortBreak" /\ prev.timeLeft = 0

\* C14: cycle >= 1 in every reachable state.
C14_CyclePositive == cycle >= 1

C14_Witness ==
    /\ lastOp = "reset" /\ prev.cycle = 3 /\ cycle = 1

\* C19: in every reachable state with phase = longBreak, cycle is a
\* multiple of 4, and with phase = shortBreak it is not.
C19_BreakKind ==
    /\ phase = "longBreak" => cycle % 4 = 0
    /\ phase = "shortBreak" => cycle % 4 /= 0

C19_Witness ==
    /\ phase = "longBreak" /\ cycle = 4 /\ timeLeft = 0 /\ lastOp = "tick"

\* C20: with running = true throughout and no reset, the tick that leaves a
\* phase entered at its full duration is tick number phaseDuration + 1: the
\* countdown reaches 0 after phaseDuration ticks and one more tick changes
\* the phase (1501 ticks for work, 301 for shortBreak, 901 for longBreak).
C20_PhaseLength ==
    /\ phaseTicks /= -1 => phaseTicks = phaseDuration(phase) - timeLeft
    /\ (lastOp = "tick" /\ phase /= prev.phase /\ leftAfter /= -1)
          => /\ leftAfter = phaseDuration(prev.phase) + 1
             /\ leftAfter = CASE prev.phase = "work" -> 1501
                              [] prev.phase = "shortBreak" -> 301
                              [] prev.phase = "longBreak" -> 901

C20_Witness ==
    /\ lastOp = "tick" /\ prev.phase = "longBreak" /\ phase = "work"
    /\ leftAfter = 901

\* The number a string of decimal digits denotes, -1 if it is not one.
DigitValue(ch) == IF \E d \in 0..9 : DigitChars[d + 1] = ch
                    THEN CHOOSE d \in 0..9 : DigitChars[d + 1] = ch
                    ELSE -1

RECURSIVE NumberOf(_)
NumberOf(str) ==
    IF str = << >> THEN 0
    ELSE LET d == DigitValue(str[Len(str)])
             r == NumberOf(SubSeq(str, 1, Len(str) - 1))
         IN IF d = -1 \/ r = -1 THEN -1 ELSE 10 * r + d

\* C16: for every reachable timeLeft t, the display is floor(t / 60) and
\* t mod 60, each as exactly two decimal digits with a leading zero below 10
\* (t = 65 gives 01 and 05, t = 0 gives 00 and 00).
C16_Display ==
    /\ Len(minutes) = 2 /\ Len(seconds) = 2
    /\ NumberOf(minutes) = timeLeft \div 60
    /\ NumberOf(seconds) = timeLeft % 60
    /\ timeLeft = 65 => (minutes = <<"0", "1">> /\ seconds = <<"0", "5">>)
    /\ timeLeft = 0 => (minutes = <<"0", "0">> /\ seconds = <<"0", "0">>)

C16_Witness ==
    /\ timeLeft = 65 /\ phase = "shortBreak" /\ lastOp = "tick"
    /\ minutes = <<"0", "1">> /\ seconds = <<"0", "5">>

\* A callback is due and it changes the state.
TickActs ==
    /\ interval /= NoInterval
    /\ IntervalCallback(interval, timeLeft, phase, cycle)
          /= [timeLeft |-> timeLeft, phase |-> phase, cycle |-> cycle]

\* C15: the timer has no terminal state: in every state with running = true
\* a tick is due and acts, and while the timer is left running work is
\* always followed by a break and a break by work (up to the model's last
\* cycle).
C15_NoTerminalState ==
    /\ [](running => TickActs)
    /\ (running /\ phase = "work") ~> (phase \in Breaks)
    /\ (running /\ phase \in Breaks /\ cycle < MaxCycle) ~> (phase = "work")

C15_Witness ==
    /\ running /\ lastOp = "tick" /\ ticks /= -1
    /\ prev.phase = "longBreak" /\ phase = "work" /\ cycle = 5

ProtectedPages == {PageAt(path) : path \in ProtectedPaths}

\* C17: under any sequence of auth state changes a protected page is
\* rendered only while the session held by AuthProvider is non-null, and
\* whenever the session is null every route other than /login yields a
\* redirect to /login.
C17_ProtectedPages ==
    /\ \A i \in 1..Len(shown) :
          /\ shown[i].page \in ProtectedPages => shown[i].session /= NoSession
          /\ (shown[i].session = NoSession /\ shown[i].path /= LoginPath)
                => /\ shown[i].page = "Navigate"
                   /\ \/ i < Len(shown) /\ shown[i + 1].path = LoginPath
                      \/ ~subscribed
    /\ shown[Len(shown)] = Render(session, location)
    /\ session = NoSession => location = LoginPath \/ ~subscribed

C17_Witness ==
    /\ authOp = "authChange" /\ session = NoSession
    /\ Len(shown) = 2
    /\ shown[1].path = "/kanban" /\ shown[1].page = "Navigate"
    /\ location = LoginPath

\* C18: when a drag ends over a column whose id differs from the dragged
\* task's status, handleDragEnd sets that task's status in the local list
\* to the column id, leaves every other task and every other field
\* unchanged, and issues one backend update of that task to that status;
\* when the drag ends with no drop target nothing changes locally and no
\* backend update is issued.
C18_DragEnd ==
    kanbanOp = "dragEnd"
      => /\ (dragEvent.over /= "null"
              /\ dragEvent.over /= LocalStatus(kanbanPrev.tasks, dragEvent.active))
            => /\ Len(tasks) = Len(kanbanPrev.tasks)
               /\ \A i \in 1..Len(tasks) :
                     IF kanbanPrev.tasks[i].id = dragEvent.active
                       THEN /\ tasks[i].status = dragEvent.over
                            /\ tasks[i].id = kanbanPrev.tasks[i].id
                            /\ tasks[i].title = kanbanPrev.tasks[i].title
                       ELSE tasks[i] = kanbanPrev.tasks[i]
               /\ requests = Append(kanbanPrev.requests,
                                    [id |-> dragEvent.active, status |-> dragEvent.over])
         /\ dragEvent.over = "null"
            => /\ tasks = kanbanPrev.tasks
               /\ requests = kanbanPrev.requests

C18_Witness ==
    /\ kanbanOp = "dragEnd"
    /\ dragEvent.over = "concluido"
    /\ LocalStatus(kanbanPrev.tasks, dragEvent.active) = "pendente"
    /\ LocalStatus(tasks, dragEvent.active) = "concluido"
    /\ Len(requests) = Len(kanbanPrev.requests) + 1

CommittedClosure == [phase |-> phase, cycle |-> cycle]

\* C21: once the effect of a committed state has run, at most one interval
\* is live, and one is live exactly when running = true; every change of
\* running, phase or cycle clears the previous interval before a new one is
\* installed, so that two intervals never change the state for the same
\* second and no interval changes it after pause or reset.
C21_OneInterval ==
    /\ Len(intervals) <= 1
    /\ ~pendingEffect
          => /\ intervals = IF running THEN <<CommittedClosure>> ELSE << >>
             /\ effectHandle = IF running THEN CommittedClosure ELSE NoInterval
    /\ lastOp \in {"pause", "reset"} => (intervals = << >> /\ ~pendingEffect)
    /\ lastOp = "fire" => (prev.running /\ running)
    /\ ~running => intervals = << >>

C21_Witness ==
    /\ lastOp = "flush" /\ running
    /\ phase = "shortBreak" /\ timeLeft = shortBreak
    /\ intervals = <<CommittedClosure>>

\* C22 as stated: every callback that acts, by a transition at timeLeft = 0
\* or by a decrement, was created under the phase and cycle that are
\* committed when it acts, under every interleaving of interval firings,
\* clicks and the effect.
C22_Original ==
    lastOp = "fire" => fired = [phase |-> prev.phase, cycle |-> prev.cycle]

\* C22 as amended: every callback that performs a transition at
\* timeLeft = 0 was created under the committed phase and cycle; a callback
\* created under an earlier phase or cycle can act only before the effect
\* of the commit that changed them has run, and then it only decrements
\* timeLeft, from the full duration of the new phase.
C22_Amended ==
    /\ (lastOp = "fire" /\ prev.timeLeft = 0)
          => fired = [phase |-> prev.phase, cycle |-> prev.cycle]
    /\ (lastOp = "fire" /\ fired /= [phase |-> prev.phase, cycle |-> prev.cycle])
          => /\ prev.timeLeft = phaseDuration(prev.phase)
             /\ timeLeft = prev.timeLeft - 1
             /\ phase = prev.phase
             /\ cycle = prev.cycle
             /\ ~pendingEffect
             /\ intervals = <<CommittedClosure>>

C22_Witness ==
    /\ lastOp = "fire" /\ prev.timeLeft = 0
    /\ prev.phase = "longBreak" /\ phase = "work"
    /\ fired = [phase |-> "longBreak", cycle |-> 4]
    /\ pendingEffect

\* C23: on the Kanban page, under every interleaving of the initial fetch's
\* completion with the realtime INSERT, UPDATE and DELETE callbacks, once
\* the fetch has resolved and all events have been delivered the local
\* tasks list holds exactly the backend's rows: each backend task id
\* appears exactly once (no duplicate, no task lost) and no deleted id
\* remains.  A change made after the select ran and before the
\* subscription was registered has no event to deliver; the formula
\* speaks only of the runs without such a change, all of which the claim
\* covers.
C23_ListMatchesTable ==
    (fetch = "done" /\ channel = << >> /\ ~missed)
      => /\ \A i \in TaskIds :
               dbTable[i] \notin NotRows
                 => Cardinality({k \in 1..Len(tasks) : tasks[k].id = i}) = 1
         /\ \A k \in 1..Len(tasks) :
               /\ dbTable[tasks[k].id] \notin NotRows
               /\ tasks[k] = Task(tasks[k].id, dbTable[tasks[k].id])

====
